---- MODULE Spec2Model ----
(***************************************************************************)
(* Model of run.py: the batch loop `main`, the skip decision `should_skip`, *)
(* the pull-request gate `should_open_pr`, the persistence primitives       *)
(* `save_predictions` / `save_patch`, and the construction-time check of    *)
(* `ActionsArguments`.                                                      *)
(*                                                                         *)
(* Strings are sequences of one-character strings, so that the regular      *)
(* expression match of the instance filter is computed, not assumed.        *)
(***************************************************************************)
EXTENDS Integers, Sequences, FiniteSets, TLC

(* ------------------------------ bounds --------------------------------- *)

\* number of rows of env.data
NumInstances == 2
\* how many times main is run over the same run directory
MaxBatches == 2

(* --------------------------- value domains ----------------------------- *)

\* instance identifiers of the dataset, in dataset order
InstancePool == << <<"a", "1">>, <<"b", "1">>, <<"a", "2">>, <<"a", "b">> >>
Data == SubSeq(InstancePool, 1, NumInstances)
Indices == 1..NumInstances
InstanceIds == {Data[i] : i \in Indices}

\* instance_filter values: ".*" (the default), "a.*" and "a"
Patterns == { <<".*">>, <<"a", ".*">>, <<"a">> }

\* info["submission"]: key absent, None, or a patch text
NoKey == "<no key>"
Null == "<None>"
Submissions == {NoKey, Null, "p1"}

\* info["exit_status"]: key absent, or one of the agent's exit statuses
NoStatus == "<no exit_status>"
ExitStatuses == {NoStatus, "early_exit", "submitted", "exit_cost"}

Infos == [submission : Submissions, exit_status : ExitStatuses]
NoDecision == [out |-> "none", check |-> 0]
NoInfo == [submission |-> NoKey, exit_status |-> NoStatus]

\* content of <instance_id>.traj: no file, a file that is not a JSON object
\* with an "info" object, or the exit_status of the "info" object it holds
NoFile == "<no file>"
Corrupt == "<corrupt>"
TrajStates == {NoFile, Corrupt} \cup ExitStatuses

\* env.record before the first reset
NoRecord == <<>>

\* results of the issue lookup (get_gh_issue_data, get_associated_commit_urls)
Lookups ==
    [kind : {"InvalidGithubURL"}, state : {"open"}, locked : {FALSE}, commits : {FALSE}]
    \cup [kind : {"issue"}, state : {"open", "closed"}, locked : BOOLEAN, commits : BOOLEAN]
NoLookup == [kind |-> "none", state |-> "open", locked |-> FALSE, commits |-> FALSE]

\* raw command line values from which ScriptArguments is constructed
RawArgs ==
    [open_pr : BOOLEAN,
     skip_if_commits_reference_issue : BOOLEAN,
     push_gh_repo_url : {"", "fork"},
     instance_filter : Patterns,
     skip_existing : BOOLEAN,
     raise_exceptions : BOOLEAN]

\* the defaults of ActionsArguments and ScriptArguments: the value of `args`
\* before any has been constructed
DefaultArgs ==
    [open_pr |-> FALSE,
     skip_if_commits_reference_issue |-> TRUE,
     push_gh_repo_url |-> "",
     instance_filter |-> <<".*">>,
     skip_existing |-> TRUE,
     raise_exceptions |-> FALSE]

\* Path(traj_dir).name, the run name
RunName == "run"

VARIABLES
    raw,          \* the raw argument values
    args,         \* the constructed ScriptArguments
    pc,           \* position of the control flow
    mainStatus,   \* how the program stands: running, returned, raised, ...
    invocations,  \* how many times the program is started in this run directory
    batch,        \* number of runs of main started so far
    index,        \* loop variable of main
    record,       \* env.record["instance_id"]: the instance of the last reset
    info,         \* info returned by agent.run
    errs,         \* per instance, the step of the current run that raised
    traj,         \* <instance_id>.traj files
    ledger,       \* all_preds.jsonl, line by line
    patches,      \* patches/<instance_id>.patch files
    args_yaml,    \* args.yaml
    st,           \* what became of each instance in the current run of main
    attempts,     \* how often each instance was taken up in the current run
    envClosed,    \* env.close() was called in the current run of main
    lookup,       \* result of the issue lookup of the last gate
    decision,     \* result of the last should_open_pr call
    skipped,      \* result of the last should_skip call
    interrupted,  \* where a KeyboardInterrupt arrived
    ledgerStart,  \* ledger when the current run of main started
    trajStart,    \* trajectory files when the current run of main started
    prevExit,     \* how the previous run of main ended: interrupted, raised,
                  \* with a failed instance, or clean
    containerReset \* per instance: its handler called env.reset_container()

vars == <<raw, args, invocations, pc, mainStatus, batch, index, record, info, errs, traj, ledger,
          patches, args_yaml, st, attempts, envClosed, lookup, decision, skipped, interrupted,
          ledgerStart, trajStart, prevExit, containerReset>>

(* ----------------------- regular expressions --------------------------- *)

\* the lengths n such that pattern p matches the first n characters of s
RECURSIVE MatchEnds(_, _)
MatchEnds(p, s) ==
    IF p = <<>> THEN {0}
    ELSE LET t == Head(p)
             rest == Tail(p)
         IN  IF t = ".*"
             THEN UNION { {k + m : m \in MatchEnds(rest, SubSeq(s, k + 1, Len(s)))}
                          : k \in 0..Len(s) }
             ELSE IF s # <<>> /\ (t = "." \/ t = Head(s))
                  THEN {1 + m : m \in MatchEnds(rest, Tail(s))}
                  ELSE {}

\* re.fullmatch(p, s) is not None
re_fullmatch(p, s) == Len(s) \in MatchEnds(p, s)

\* re.match(p, s) is not None: the pattern matches at the start of s
re_match(p, s) == MatchEnds(p, s) # {}

(* ------------------------- ActionsArguments ---------------------------- *)

\* the check of __post_init__ left out
PostInitRaises_never(a) == FALSE

\* a __post_init__ that rejects the unset skip flag only without a fork URL
PostInitRaises_without_url(a) ==
    ~a.skip_if_commits_reference_issue /\ a.push_gh_repo_url = ""

\* __post_init__ raises ValueError
PostInitRaises(a) ==
    ~a.skip_if_commits_reference_issue /\ a.push_gh_repo_url # ""

(* ---------------------------- should_skip ------------------------------ *)

\* should_skip with the look at the existing trajectory left out
should_skip_ignores_existing(a, files, id) ==
    IF ~re_match(a.instance_filter, id)
    THEN [out |-> "skip", why |-> "filter", files |-> files]
    ELSE [out |-> "process", why |-> "flag", files |-> files]

\* should_skip that takes only a missing exit status for incomplete
should_skip_keeps_early_exit(a, files, id) ==
    IF ~re_match(a.instance_filter, id)
    THEN [out |-> "skip", why |-> "filter", files |-> files]
    ELSE IF ~a.skip_existing
    THEN [out |-> "process", why |-> "flag", files |-> files]
    ELSE IF files[id] = NoFile
    THEN [out |-> "process", why |-> "absent", files |-> files]
    ELSE IF files[id] = Corrupt
    THEN [out |-> "raise", why |-> "corrupt", files |-> files]
    ELSE IF files[id] = NoStatus
    THEN [out |-> "process", why |-> "incomplete",
          files |-> [files EXCEPT ![id] = NoFile]]
    ELSE [out |-> "skip", why |-> "existing", files |-> files]

\* should_skip that removes an existing trajectory before it looks at the
\* skip_existing flag
should_skip_removes_unflagged(a, files, id) ==
    IF ~re_match(a.instance_filter, id)
    THEN [out |-> "skip", why |-> "filter", files |-> files]
    ELSE IF ~a.skip_existing
    THEN [out |-> "process", why |-> "flag",
          files |-> [files EXCEPT ![id] = NoFile]]
    ELSE IF files[id] = NoFile
    THEN [out |-> "process", why |-> "absent", files |-> files]
    ELSE IF files[id] = Corrupt
    THEN [out |-> "raise", why |-> "corrupt", files |-> files]
    ELSE IF files[id] = "early_exit" \/ files[id] = NoStatus
    THEN [out |-> "process", why |-> "incomplete",
          files |-> [files EXCEPT ![id] = NoFile]]
    ELSE [out |-> "skip", why |-> "existing", files |-> files]

\* should_skip(args, traj_dir, instance_id): what it returns ("skip",
\* "process", or "raise" when json.load or data["info"] raises), why, and the
\* trajectory files it leaves
should_skip(a, files, id) ==
    IF ~re_match(a.instance_filter, id)
    THEN [out |-> "skip", why |-> "filter", files |-> files]
    ELSE IF ~a.skip_existing
    THEN [out |-> "process", why |-> "flag", files |-> files]
    ELSE IF files[id] = NoFile
    THEN [out |-> "process", why |-> "absent", files |-> files]
    ELSE IF files[id] = Corrupt
    THEN [out |-> "raise", why |-> "corrupt", files |-> files]
    ELSE IF files[id] = "early_exit" \/ files[id] = NoStatus
    THEN [out |-> "process", why |-> "incomplete",
          files |-> [files EXCEPT ![id] = NoFile]]
    ELSE [out |-> "skip", why |-> "existing", files |-> files]

(* --------------------------- should_open_pr ---------------------------- *)

\* info.get("submission") is truthy
HasSubmission(inf) == inf.submission # NoKey /\ inf.submission # Null

\* should_open_pr(args, info): "ELIGIBLE" (True), "INELIGIBLE" (False) or
\* "raise", with the number of the check that decided
should_open_pr(a, inf, lk) ==
    IF ~HasSubmission(inf)
    THEN [out |-> "INELIGIBLE", check |-> 1]
    ELSE IF inf.exit_status = NoStatus
    THEN [out |-> "raise", check |-> 2]
    ELSE IF inf.exit_status # "submitted"
    THEN [out |-> "INELIGIBLE", check |-> 2]
    ELSE IF lk.kind = "InvalidGithubURL"
    THEN [out |-> "INELIGIBLE", check |-> 3]
    ELSE IF lk.state # "open"
    THEN [out |-> "INELIGIBLE", check |-> 4]
    ELSE IF lk.locked
    THEN [out |-> "INELIGIBLE", check |-> 5]
    ELSE IF lk.commits /\ a.skip_if_commits_reference_issue
    THEN [out |-> "INELIGIBLE", check |-> 6]
    ELSE [out |-> "ELIGIBLE", check |-> 7]

(* ----------------------- persistence primitives ------------------------ *)

\* the line save_predictions appends to all_preds.jsonl
Datum(id, inf) ==
    [model_name_or_path |-> RunName,
     instance_id |-> id,
     model_patch |-> IF inf.submission = NoKey THEN Null ELSE inf.submission]

\* save_predictions that opens the ledger for writing, not for appending
save_predictions_rewrites(lines, id, inf) == << Datum(id, inf) >>

\* save_predictions(traj_dir, instance_id, info): the ledger it leaves
save_predictions(lines, id, inf) == Append(lines, Datum(id, inf))

\* save_patch raises: write_text(None) is a TypeError
save_patch_raises(inf) == inf.submission = Null

\* save_patch(traj_dir, instance_id, info): the patch files it leaves
save_patch(files, id, inf) ==
    IF inf.submission = NoKey THEN files
    ELSE [files EXCEPT ![id] = inf.submission]

(* ------------------------------- state --------------------------------- *)

\* the state before the program is started for the first time, in a fresh run
\* directory
Fresh(argsets, n) ==
    /\ raw \in argsets
    /\ args = DefaultArgs
    /\ invocations = n
    /\ pc = "construct"
    /\ mainStatus = "starting"
    /\ batch = 0
    /\ index = 1
    /\ record = NoRecord
    /\ info = NoInfo
    /\ errs = [i \in Indices |-> "none"]
    /\ traj = [id \in InstanceIds |-> NoFile]
    /\ ledger = <<>>
    /\ patches = [id \in InstanceIds |-> NoFile]
    /\ args_yaml = NoFile
    /\ st = [i \in Indices |-> "PENDING"]
    /\ attempts = [i \in Indices |-> 0]
    /\ envClosed = FALSE
    /\ lookup = NoLookup
    /\ decision = NoDecision
    /\ skipped = "none"
    /\ interrupted = "no"
    /\ ledgerStart = <<>>
    /\ trajStart = [id \in InstanceIds |-> NoFile]
    /\ prevExit = "none"
    /\ containerReset = [i \in Indices |-> FALSE]

\* one run of the program, with any arguments
Init == Fresh(RawArgs, 1)

\* the program is run MaxBatches times over the same run directory, with the
\* default actions and open_pr set
ResumeArgs ==
    {r \in RawArgs : r.open_pr /\ r.skip_if_commits_reference_issue
                                /\ r.push_gh_repo_url = ""}
InitResume == Fresh(ResumeArgs, MaxBatches)

\* a run of main reaches its loop over a run directory that earlier runs have
\* left with any trajectory files
AtLoopStart ==
    /\ raw \in {r \in RawArgs : ~PostInitRaises(r)}
    /\ args = raw
    /\ invocations = 1
    /\ pc = "should_skip"
    /\ mainStatus = "running"
    /\ batch = 1
    /\ index = 1
    /\ record = NoRecord
    /\ info = NoInfo
    /\ errs = [i \in Indices |-> "none"]
    /\ traj \in [InstanceIds -> TrajStates]
    /\ ledger = <<>>
    /\ patches = [id \in InstanceIds |-> NoFile]
    /\ args_yaml = raw
    /\ st = [i \in Indices |-> "PENDING"]
    /\ attempts = [i \in Indices |-> 0]
    /\ envClosed = FALSE
    /\ lookup = NoLookup
    /\ decision = NoDecision
    /\ skipped = "none"
    /\ interrupted = "no"
    /\ ledgerStart = ledger
    /\ trajStart = traj
    /\ prevExit = "interrupted"
    /\ containerReset = [i \in Indices |-> FALSE]

\* the positions inside the try block of main's loop
BodyPcs == {"should_skip", "reset", "agent_run", "save_predictions", "save_patch",
            "should_open_pr", "open_pr"}

\* the instance of the current iteration becomes s
Mark(s) == st' = [st EXCEPT ![index] = s]

\* a loop that does not move on
NextIndex_stuck(i) == i

\* the loop variable after the current iteration
NextIndex(i) == i + 1

\* `continue`, or the end of the loop body: the next index, or the end of main
Advance ==
    IF NextIndex(index) \in Indices
    THEN /\ index' = NextIndex(index)
         /\ pc' = "should_skip"
         /\ mainStatus' = mainStatus
    ELSE /\ index' = index
         /\ pc' = "exit"
         /\ mainStatus' = "returned"

\* an exception leaves the try block: the handler runs next
Raise(step) ==
    /\ pc' = "except"
    /\ errs' = [errs EXCEPT ![index] = step]
    /\ UNCHANGED <<index, mainStatus>>

(* ------------------------------ actions -------------------------------- *)

\* get_args: the ScriptArguments value is constructed; ActionsArguments
\* .__post_init__ rejects it or lets it through
Construct ==
    /\ pc = "construct"
    /\ IF PostInitRaises(raw)
       THEN /\ pc' = "exit"
            /\ mainStatus' = "config_error"
            /\ args' = args
       ELSE /\ pc' = "main"
            /\ mainStatus' = "constructed"
            /\ args' = raw
    /\ UNCHANGED <<raw, invocations, batch, index, record, info, errs, traj, ledger, patches,
                   args_yaml, st, attempts, envClosed, lookup, decision, skipped,
                   interrupted, ledgerStart, trajStart, prevExit, containerReset>>

\* main, lines 90-101: a run of main starts (the first one, or the program is
\* started again with the same arguments in the same run directory), the
\* arguments are saved and the loop is entered
MainStart ==
    /\ pc \in {"main", "exit"}
    /\ mainStatus # "config_error"
    /\ batch < invocations
    /\ batch' = batch + 1
    /\ args_yaml' = args
    /\ record' = NoRecord
    /\ info' = NoInfo
    /\ errs' = [i \in Indices |-> "none"]
    /\ prevExit' = IF batch = 0 THEN "none"
                   ELSE IF interrupted # "no" THEN "interrupted"
                   ELSE IF mainStatus # "returned" THEN mainStatus
                   ELSE IF \E i \in Indices : st[i] \in {"FAILED", "NO_INFO"}
                   THEN "failed"
                   ELSE "clean"
    /\ st' = [i \in Indices |-> "PENDING"]
    /\ attempts' = [i \in Indices |-> 0]
    /\ containerReset' = [i \in Indices |-> FALSE]
    /\ envClosed' = FALSE
    /\ lookup' = NoLookup
    /\ decision' = NoDecision
    /\ skipped' = "none"
    /\ interrupted' = "no"
    /\ ledgerStart' = ledger
    /\ trajStart' = traj
    /\ index' = 1
    /\ IF 1 \in Indices
       THEN pc' = "should_skip" /\ mainStatus' = "running"
       ELSE pc' = "exit" /\ mainStatus' = "returned"
    /\ UNCHANGED <<raw, args, invocations, traj, ledger, patches>>

\* main, lines 104-108: the iteration of the instance at `index` begins
ShouldSkipStep ==
    /\ pc = "should_skip"
    /\ attempts' = [attempts EXCEPT ![index] = @ + 1]
    /\ info' = NoInfo
    /\ lookup' = NoLookup
    /\ decision' = NoDecision
    /\ LET r == should_skip(args, traj, Data[index])
       IN  /\ traj' = r.files
           /\ skipped' = r.why
           /\ CASE r.out = "skip" ->
                     /\ Mark(IF r.why = "filter" THEN "FILTERED_OUT" ELSE "SKIPPED")
                     /\ Advance
                     /\ errs' = errs
                [] r.out = "process" ->
                     /\ Mark("RUNNING")
                     /\ pc' = "reset"
                     /\ UNCHANGED <<index, mainStatus, errs>>
                [] r.out = "raise" ->
                     /\ Mark("RUNNING")
                     /\ Raise("should_skip")
    /\ UNCHANGED <<raw, args, invocations, batch, record, ledger, patches, args_yaml, envClosed,
                   interrupted, ledgerStart, trajStart, prevExit, containerReset>>

\* a reset whose missing info is treated as an error of the instance
ResetStep_no_info_raises ==
    /\ pc = "reset"
    /\ \E r \in {"ok", "no_info", "raise"} :
         /\ record' = Data[index]
         /\ CASE r = "ok" ->
                   /\ Mark("RESET")
                   /\ pc' = "agent_run"
                   /\ UNCHANGED <<index, mainStatus, errs>>
              [] r = "no_info" ->
                   /\ Mark("NO_INFO")
                   /\ Raise("reset")
              [] OTHER ->
                   /\ Mark("RESET")
                   /\ Raise("reset")
    /\ UNCHANGED <<raw, args, invocations, batch, info, traj, ledger, patches, args_yaml, attempts,
                   envClosed, lookup, decision, skipped, interrupted, ledgerStart,
                   trajStart, prevExit, containerReset>>

\* main, lines 110-112: env.reset(index) sets env.record to the instance and
\* returns an info, returns no info, or raises
ResetStep ==
    /\ pc = "reset"
    /\ \E r \in {"ok", "no_info", "raise"} :
         /\ record' = Data[index]
         /\ CASE r = "ok" ->
                   /\ Mark("RESET")
                   /\ pc' = "agent_run"
                   /\ UNCHANGED <<index, mainStatus, errs>>
              [] r = "no_info" ->
                   /\ Mark("NO_INFO")
                   /\ Advance
                   /\ errs' = errs
              [] OTHER ->
                   /\ Mark("RESET")
                   /\ Raise("reset")
    /\ UNCHANGED <<raw, args, invocations, batch, info, traj, ledger, patches, args_yaml, attempts,
                   envClosed, lookup, decision, skipped, interrupted, ledgerStart,
                   trajStart, prevExit, containerReset>>

\* the trajectory file agent.run leaves when it raises: none written, an
\* unparsable one, or one whose info has no exit status yet
PartialTraj(old) == {old, Corrupt, NoStatus}

\* main, lines 115-144: agent.run returns an info and has written the
\* trajectory file, or raises
AgentRunStep ==
    /\ pc = "agent_run"
    /\ Mark("RAN")
    /\ \/ \E inf \in Infos :
            /\ info' = inf
            /\ traj' = [traj EXCEPT ![Data[index]] = inf.exit_status]
            /\ pc' = "save_predictions"
            /\ UNCHANGED <<index, mainStatus, errs>>
       \/ \E t \in PartialTraj(traj[Data[index]]) :
            /\ info' = info
            /\ traj' = [traj EXCEPT ![Data[index]] = t]
            /\ Raise("agent_run")
    /\ UNCHANGED <<raw, args, invocations, batch, record, ledger, patches, args_yaml, attempts,
                   envClosed, lookup, decision, skipped, interrupted, ledgerStart,
                   trajStart, prevExit, containerReset>>

\* main, line 145: save_predictions appends the line, or opening the file fails
SavePredictionsStep ==
    /\ pc = "save_predictions"
    /\ \E fault \in BOOLEAN :
         IF fault
         THEN /\ Raise("save_predictions")
              /\ UNCHANGED <<ledger, st>>
         ELSE /\ ledger' = save_predictions(ledger, Data[index], info)
              /\ Mark("APPENDED")
              /\ pc' = "save_patch"
              /\ UNCHANGED <<index, mainStatus, errs>>
    /\ UNCHANGED <<raw, args, invocations, batch, record, info, traj, patches, args_yaml, attempts,
                   envClosed, lookup, decision, skipped, interrupted, ledgerStart,
                   trajStart, prevExit, containerReset>>

\* main, lines 146-147: save_patch writes the patch file, has nothing to
\* write, or raises; then the gate is consulted if open_pr is set
SavePatchStep ==
    /\ pc = "save_patch"
    /\ IF save_patch_raises(info)
       THEN /\ Raise("save_patch")
            /\ UNCHANGED <<patches, st>>
       ELSE /\ patches' = save_patch(patches, Data[index], info)
            /\ Mark("RECORDED")
            /\ IF args.open_pr
               THEN pc' = "should_open_pr" /\ UNCHANGED <<index, mainStatus>>
               ELSE Advance
            /\ errs' = errs
    /\ UNCHANGED <<raw, args, invocations, batch, record, info, traj, ledger, args_yaml, attempts,
                   envClosed, lookup, decision, skipped, interrupted, ledgerStart,
                   trajStart, prevExit, containerReset>>

\* a gate whose answer main does not look at
ShouldOpenPRStep_ungated ==
    /\ pc = "should_open_pr"
    /\ \E lk \in Lookups :
         LET d == should_open_pr(args, info, lk)
         IN  /\ lookup' = lk
             /\ decision' = d
             /\ CASE d.out = "raise" -> Raise("should_open_pr")
                  [] OTHER -> pc' = "open_pr" /\ UNCHANGED <<index, mainStatus, errs>>
    /\ UNCHANGED <<raw, args, invocations, batch, record, info, traj, ledger, patches, args_yaml,
                   st, attempts, envClosed, skipped, interrupted, ledgerStart,
                   trajStart, prevExit, containerReset>>

\* main, line 147: should_open_pr(args, info)
ShouldOpenPRStep ==
    /\ pc = "should_open_pr"
    /\ \E lk \in Lookups :
         LET d == should_open_pr(args, info, lk)
         IN  /\ lookup' = lk
             /\ decision' = d
             /\ CASE d.out = "ELIGIBLE" ->
                       pc' = "open_pr" /\ UNCHANGED <<index, mainStatus, errs>>
                  [] d.out = "INELIGIBLE" -> Advance /\ errs' = errs
                  [] d.out = "raise" -> Raise("should_open_pr")
    /\ UNCHANGED <<raw, args, invocations, batch, record, info, traj, ledger, patches, args_yaml,
                   st, attempts, envClosed, skipped, interrupted, ledgerStart,
                   trajStart, prevExit, containerReset>>

\* main, line 148: env.open_pr
OpenPRStep ==
    /\ pc = "open_pr"
    /\ Mark("ACTION_GATED")
    /\ Advance
    /\ UNCHANGED <<raw, args, invocations, batch, record, info, errs, traj, ledger, patches,
                   args_yaml, attempts, envClosed, lookup, decision, skipped,
                   interrupted, ledgerStart, trajStart, prevExit, containerReset>>

\* env.record['instance_id'] in the log message raises
LogRaises(rec) == rec = NoRecord

\* a handler that never re-raises
Reraises_never(a) == FALSE

\* the handler re-raises the exception
Reraises(a) == a.raise_exceptions

\* a handler that continues without env.reset_container()
reset_container_skipped(done, i) == done

\* main, line 159: env.reset_container() in the handler of instance i
reset_container(done, i) == [done EXCEPT ![i] = TRUE]

\* main, lines 154-160: the handler of `except Exception`
ExceptStep ==
    /\ pc = "except"
    /\ Mark("FAILED")
    /\ IF LogRaises(record) \/ Reraises(args)
       THEN /\ pc' = "exit"
            /\ mainStatus' = "raised"
            /\ index' = index
            /\ containerReset' = containerReset
       ELSE /\ containerReset' = reset_container(containerReset, index)
            /\ Advance
    /\ UNCHANGED <<raw, args, invocations, batch, record, info, errs, traj, ledger, patches,
                   args_yaml, attempts, envClosed, lookup, decision, skipped,
                   interrupted, ledgerStart, trajStart, prevExit>>

\* a KeyboardInterrupt handled like any other exception
Interrupt_as_exception ==
    /\ pc \in BodyPcs
    /\ interrupted' = pc
    /\ Raise(pc)
    /\ UNCHANGED <<raw, args, invocations, batch, record, info, traj, ledger,
                   patches, args_yaml, st, attempts, envClosed, lookup, decision,
                   skipped, ledgerStart, trajStart, prevExit, containerReset>>

\* main, lines 150-153: a KeyboardInterrupt arrives inside the try block
Interrupt ==
    /\ pc \in BodyPcs
    /\ interrupted' = pc
    /\ envClosed' = TRUE
    /\ pc' = "exit"
    /\ mainStatus' = "returned"
    /\ UNCHANGED <<raw, args, invocations, batch, index, record, info, errs, traj, ledger, patches,
                   args_yaml, st, attempts, lookup, decision, skipped, ledgerStart,
                   trajStart, prevExit, containerReset>>

\* a KeyboardInterrupt arrives while the handler of `except Exception` runs:
\* no handler catches it and it leaves main
InterruptInHandler ==
    /\ pc = "except"
    /\ interrupted' = pc
    /\ pc' = "exit"
    /\ mainStatus' = "interrupted"
    /\ UNCHANGED <<raw, args, invocations, batch, index, record, info, errs, traj, ledger, patches,
                   args_yaml, st, attempts, envClosed, lookup, decision, skipped,
                   ledgerStart, trajStart, prevExit, containerReset>>

Next ==
    \/ Construct
    \/ MainStart
    \/ ShouldSkipStep
    \/ ResetStep
    \/ AgentRunStep
    \/ SavePredictionsStep
    \/ SavePatchStep
    \/ ShouldOpenPRStep
    \/ OpenPRStep
    \/ ExceptStep
    \/ Interrupt
    \/ InterruptInHandler

Spec == Init /\ [][Next]_vars

SpecResume == InitResume /\ [][Next]_vars

\* the skip decisions of one run, over any trajectory files
SpecSkip == AtLoopStart /\ [][ShouldSkipStep]_vars

(* ------------------------- notions of the claims ----------------------- *)

\* the lines appended to the ledger by the current run of main
BatchLedger == SubSeq(ledger, Len(ledgerStart) + 1, Len(ledger))

\* the position of an instance in the dataset
IndexOf(id) == CHOOSE i \in Indices : Data[i] = id

\* how many lines the current run of main appended for instance i
Entries(i) ==
    Cardinality({k \in DOMAIN BatchLedger : BatchLedger[k].instance_id = Data[i]})

\* the handling of an instance has ended
Terminal == {"FILTERED_OUT", "SKIPPED", "NO_INFO", "RECORDED", "ACTION_GATED", "FAILED"}

\* instance i was processed without error
ProcessedOK(i) == st[i] \in {"RECORDED", "ACTION_GATED"}

\* the processing of instance i raised
Raised(i) == errs[i] # "none"

\* nothing beyond instance i has been touched by the current run
LaterUntouched(i) ==
    \A j \in Indices : j > i => attempts[j] = 0 /\ st[j] = "PENDING" /\ Entries(j) = 0

\* a trajectory file that carries a terminal exit status
Complete(f) == f \in ExitStatuses \ {NoStatus, "early_exit"}

\* the current run of main has processed nothing
NothingProcessed ==
    /\ ledger = ledgerStart
    /\ traj = trajStart
    /\ \A i \in Indices : st[i] \in {"PENDING", "FILTERED_OUT", "SKIPPED"}

(* -------------------------------- claims ------------------------------- *)

\* C1 (as claimed): in non-strict mode, when the processing of exactly one
\* instance raised during reset, agent run or record, the run over a fresh
\* directory has taken up every instance, and the ledger holds one line for
\* each instance processed without error and none for the one that raised.
C1_FailureIsolation ==
    ( /\ pc = "exit" /\ batch = 1
      /\ ~args.raise_exceptions
      /\ interrupted = "no"
      /\ Cardinality({i \in Indices : Raised(i)}) = 1
      /\ \A i \in Indices :
           Raised(i) => errs[i] \in {"reset", "agent_run", "save_predictions", "save_patch"} )
    => /\ mainStatus = "returned"
       /\ \A j \in Indices : attempts[j] = 1
       /\ \A j \in Indices : Entries(j) = IF ProcessedOK(j) THEN 1 ELSE 0

\* C2 (as claimed): with skip_existing, a second run after a first run that
\* was not interrupted and in which no instance failed processes nothing and
\* leaves the ledger as the first run left it.
C2_IdempotentResume_AsClaimed ==
    ( /\ batch = 2
      /\ args.skip_existing
      /\ prevExit = "clean"
      /\ interrupted = "no" )
    => /\ NothingProcessed
       /\ pc = "exit" => \A i \in Indices : st[i] \in {"FILTERED_OUT", "SKIPPED"}

\* every instance the filter lets through had a complete trajectory file
\* when the current run started
AllCompleteAtStart ==
    \A i \in Indices :
      re_match(args.instance_filter, Data[i]) => Complete(trajStart[Data[i]])

\* C2 (amended): with skip_existing, a later run that starts with a complete
\* trajectory file (exit status present and not early_exit) for every
\* instance the filter lets through processes nothing: the ledger and the
\* trajectory files stay as they were and every instance is skipped.
C2_IdempotentResume ==
    ( /\ batch > 1
      /\ args.skip_existing
      /\ AllCompleteAtStart )
    => /\ NothingProcessed
       /\ (pc = "exit" /\ interrupted = "no")
            => /\ mainStatus = "returned"
               /\ \A i \in Indices : st[i] \in {"FILTERED_OUT", "SKIPPED"}

C2_Witness ==
    /\ batch > 1 /\ pc = "exit" /\ interrupted = "no"
    /\ args.skip_existing
    /\ AllCompleteAtStart
    /\ ledger # <<>>
    /\ \A i \in Indices : st[i] = "SKIPPED"

\* C3: when skip_existing is set and the filter matches, should_skip deletes
\* a trajectory file whose exit status is early_exit or missing and returns
\* PROCESS; it returns SKIP and leaves the file alone for any other exit
\* status; it returns PROCESS when there is no file.
C3_IncompleteResume ==
    [][ ( /\ pc = "should_skip"
          /\ interrupted' = "no"
          /\ args.skip_existing
          /\ re_match(args.instance_filter, Data[index]) )
        => LET id == Data[index]
               f == traj[id]
           IN  /\ (f = "early_exit" \/ f = NoStatus)
                    => /\ traj' = [traj EXCEPT ![id] = NoFile]
                       /\ pc' = "reset"
                       /\ st'[index] = "RUNNING"
               /\ Complete(f)
                    => /\ traj' = traj
                       /\ st'[index] = "SKIPPED"
                       /\ pc' \in {"should_skip", "exit"}
               /\ f = NoFile
                    => /\ traj' = traj
                       /\ pc' = "reset"
                       /\ st'[index] = "RUNNING" ]_vars

C3_Witness ==
    /\ pc = "reset"
    /\ skipped = "incomplete"
    /\ trajStart[Data[index]] = "early_exit"
    /\ traj[Data[index]] = NoFile

\* C4 (as claimed): only instances whose whole identifier matches the filter
\* are processed; every other instance is filtered out.
C4_FilterFullMatch ==
    \A i \in Indices :
      /\ st[i] \notin {"PENDING", "FILTERED_OUT"}
           => re_fullmatch(args.instance_filter, Data[i])
      /\ st[i] = "FILTERED_OUT" => ~re_fullmatch(args.instance_filter, Data[i])

\* the condition under which the gate is claimed to approve
GateCondition ==
    /\ info.submission \notin {NoKey, Null}
    /\ info.exit_status = "submitted"
    /\ lookup.kind = "issue"
    /\ lookup.state = "open"
    /\ ~lookup.locked
    /\ (~lookup.commits \/ ~args.skip_if_commits_reference_issue)

\* the first check of the claimed order that fails
FirstFailingCheck ==
    IF info.submission \in {NoKey, Null} THEN 1
    ELSE IF info.exit_status # "submitted" THEN 2
    ELSE IF lookup.kind # "issue" THEN 3
    ELSE IF lookup.state # "open" THEN 4
    ELSE IF lookup.locked THEN 5
    ELSE 6

\* C5 (as claimed): should_open_pr returns ELIGIBLE exactly under the gate
\* condition and INELIGIBLE in every other case, the first failing check
\* deciding.
C5_GateDecision ==
    decision.out # "none"
    => /\ decision.out = "ELIGIBLE" <=> GateCondition
       /\ ~GateCondition
            => decision.out = "INELIGIBLE" /\ decision.check = FirstFailingCheck

\* C6 (as claimed): should_open_pr returns a decision for every outcome and
\* every lookup result; it never raises.
C6_GateTotal ==
    decision.out \in {"none", "ELIGIBLE", "INELIGIBLE"}

\* C7: in strict mode, once the processing of an instance has raised, main
\* ends with the error, no later instance is taken up, and the ledger holds
\* the lines appended before the error and no other.
C7_StrictMode ==
    (args.raise_exceptions /\ interrupted = "no")
    => \A i \in Indices :
         Raised(i)
         => /\ index = i
            /\ pc \in {"except", "exit"}
            /\ pc = "exit" => mainStatus = "raised"
            /\ LaterUntouched(i)
            /\ \A j \in Indices : j < i => Entries(j) = IF ProcessedOK(j) THEN 1 ELSE 0
            /\ Entries(i) = IF errs[i] \in {"save_patch", "should_open_pr"} THEN 1 ELSE 0

C7_Witness ==
    /\ args.raise_exceptions
    /\ pc = "exit" /\ mainStatus = "raised"
    /\ index < NumInstances
    /\ errs[index] = "agent_run"

\* C8: a KeyboardInterrupt inside the loop body closes the environment and
\* ends the loop at once: main returns normally, the instance is not marked
\* failed, and no later instance is taken up, in strict mode or not.
C8_Interrupt ==
    interrupted \in BodyPcs
    => /\ envClosed
       /\ pc = "exit"
       /\ mainStatus = "returned"
       /\ st[index] # "FAILED"
       /\ ~Raised(index)
       /\ LaterUntouched(index)

C8_Witness ==
    /\ interrupted = "agent_run"
    /\ args.raise_exceptions
    /\ index < NumInstances

\* C9: instances are handled one at a time in dataset order: nothing beyond
\* the current index has been touched, everything before it has ended, no
\* instance is taken up twice in a run, and the lines a run appends to the
\* ledger are in dataset order.
C9_Ordering ==
    batch >= 1
    => /\ \A i \in Indices : attempts[i] <= 1
       /\ LaterUntouched(index)
       /\ \A j \in Indices : j < index => st[j] \in Terminal /\ attempts[j] = 1
       /\ \A k, l \in DOMAIN BatchLedger :
            k < l => IndexOf(BatchLedger[k].instance_id) < IndexOf(BatchLedger[l].instance_id)

C9_Witness ==
    /\ pc = "exit" /\ mainStatus = "returned"
    /\ Len(BatchLedger) = NumInstances

\* C10: no constructed arguments have skip_if_commits_reference_issue
\* disabled and push_gh_repo_url set; exactly that combination fails with a
\* configuration error, before anything is processed, and every other
\* combination is constructed as given.
C10_ConfigInvariant ==
    /\ ~(~args.skip_if_commits_reference_issue /\ args.push_gh_repo_url # "")
    /\ pc # "construct"
         => /\ mainStatus = "config_error"
                 <=> (~raw.skip_if_commits_reference_issue /\ raw.push_gh_repo_url # "")
            /\ mainStatus # "config_error" => args = raw
    /\ mainStatus = "config_error"
         => /\ batch = 0
            /\ ledger = <<>>
            /\ \A i \in Indices : attempts[i] = 0

C10_Witness ==
    /\ mainStatus = "config_error"
    /\ raw.open_pr

\* C11 (as claimed): with skip_existing, a corrupted or partial trajectory
\* file of an instance the filter lets through raises no error: should_skip
\* deletes it and the instance is processed in the same run.
C11_CorruptResume ==
    \A i \in Indices :
      ( /\ batch >= 1
        /\ args.skip_existing
        /\ re_match(args.instance_filter, Data[i])
        /\ trajStart[Data[i]] = Corrupt
        /\ st[i] # "PENDING" )
      => /\ errs[i] # "should_skip"
         /\ st[i] # "FAILED"
         /\ st[i] = "RUNNING" => traj[Data[i]] = NoFile

\* C12: the ledger is only ever extended: every step leaves it as it is or,
\* in save_predictions, puts exactly one line (run name, instance
\* identifier, submission or null) at its end.
C12_LedgerAppendOnly ==
    [][ \/ ledger' = ledger
        \/ /\ pc = "save_predictions"
           /\ ledger' = ledger \o
                << [model_name_or_path |-> RunName,
                    instance_id |-> Data[index],
                    model_patch |-> IF info.submission \in {NoKey, Null}
                                    THEN Null ELSE info.submission] >> ]_vars

C12_Witness ==
    /\ batch > 1
    /\ Len(ledgerStart) >= 1
    /\ Len(ledger) > Len(ledgerStart)
    /\ ledger[Len(ledger)].instance_id = ledger[1].instance_id

\* C13 (as claimed): save_patch never raises; for an outcome without a
\* submission it writes no patch file and the instance is RECORDED, for an
\* outcome with a submission the patch file holds exactly that submission.
C13_PatchWrite ==
    /\ \A i \in Indices : errs[i] # "save_patch"
    /\ ( /\ batch = 1
         /\ st[index] \in {"RECORDED", "ACTION_GATED"}
         /\ pc \in {"should_open_pr", "open_pr", "exit"} )
       => patches[Data[index]] =
            IF info.submission \in {NoKey, Null} THEN NoFile ELSE info.submission

\* C14 (as claimed): when the handler of main logs a failure, the identifier
\* it reads for the message (env.record['instance_id']) can be read and is
\* that of the instance whose processing raised.
C14_FailureAttribution ==
    pc = "except" => record # NoRecord /\ record = Data[index]

C16_ResetNoInfo ==
    \A i \in Indices :
      st[i] = "NO_INFO" =>
        /\ errs[i] = "none"
        /\ ~containerReset[i]
        /\ traj[Data[i]] = NoFile
        /\ patches[Data[i]] = NoFile
        /\ \A k \in 1..Len(ledger) : ledger[k].instance_id # Data[i]
        /\ i < NumInstances => index > i
        /\ i = NumInstances => pc = "exit"
        /\ mainStatus = "raised" => \E j \in Indices : j > i /\ st[j] = "FAILED"

C16_Witness ==
    /\ args.raise_exceptions
    /\ st[1] = "NO_INFO"
    /\ st[2] = "RECORDED"
    /\ Len(ledger) = 1

\* C17: env.open_pr is reached for an instance only with open_pr requested
\* and the gate ELIGIBLE on its outcome, after that outcome was appended to
\* the ledger and its patch file written; an instance that was filtered out,
\* skipped or failed has no pull request.
C17_GatedAction ==
    \A i \in Indices :
      ( st[i] = "ACTION_GATED" \/ (pc = "open_pr" /\ index = i) ) =>
        /\ args.open_pr
        /\ errs[i] = "none"
        /\ st[i] \in {"RECORDED", "ACTION_GATED"}
        /\ re_match(args.instance_filter, Data[i])
        /\ patches[Data[i]] \notin {NoFile, Null}
        /\ Cardinality({k \in 1..Len(ledger) : ledger[k].instance_id = Data[i]}) = 1
        /\ \A k \in 1..Len(ledger) :
             ledger[k].instance_id = Data[i] => ledger[k].model_patch = patches[Data[i]]
        /\ index = i =>
             /\ decision.out = "ELIGIBLE"
             /\ info.submission = patches[Data[i]]
             /\ GateCondition

C17_Witness ==
    /\ st[1] = "ACTION_GATED"
    /\ st[2] = "RECORDED"
    /\ pc = "exit"
    /\ decision.out = "INELIGIBLE"

\* C18: a should_skip step leaves the ledger and the patch files alone; it
\* removes a trajectory file only for the instance at hand, with the filter
\* matched, skip_existing set and the file's exit status early_exit or
\* missing; with skip_existing unset it sends every instance the filter lets
\* through to processing and removes nothing.
C18_SkipFrame ==
    [][ pc = "should_skip" =>
          /\ ledger' = ledger
          /\ patches' = patches
          /\ \A id \in InstanceIds :
               traj'[id] # traj[id] =>
                 /\ id = Data[index]
                 /\ traj'[id] = NoFile
                 /\ re_match(args.instance_filter, id)
                 /\ args.skip_existing
                 /\ traj[id] \in {"early_exit", NoStatus}
          /\ ( ~args.skip_existing /\ re_match(args.instance_filter, Data[index]) )
             => /\ traj' = traj
                /\ pc' = "reset"
                /\ st'[index] = "RUNNING" ]_vars

C18_Witness ==
    /\ ~args.skip_existing
    /\ trajStart[Data[1]] = "submitted"
    /\ trajStart[Data[2]] = Corrupt
    /\ st[1] = "RUNNING"
    /\ pc = "reset"
    /\ traj = trajStart

\* the last ledger line of an instance identifier
LastEntry(id) ==
    LET ks == {k \in 1..Len(ledger) : ledger[k].instance_id = id}
    IN  ledger[CHOOSE k \in ks : \A l \in ks : l <= k]

\* C19 (as claimed): after a run of main that ended without an interrupt and
\* without a failed instance, every patch file that exists holds the
\* submission of the last ledger line of its instance.
C19_PatchAgreesWithLedger ==
    ( /\ pc = "exit"
      /\ mainStatus = "returned"
      /\ interrupted = "no"
      /\ \A i \in Indices : errs[i] = "none" )
    => \A id \in InstanceIds :
         patches[id] # NoFile =>
           /\ \E k \in 1..Len(ledger) : ledger[k].instance_id = id
           /\ LastEntry(id).model_patch = patches[id]

\* C20: env.open_pr is never reached with a non-empty push_gh_repo_url for an
\* issue that has commits referencing it.
C20_NoForkPushOverFixes ==
    ( pc = "open_pr" \/ (st[index] = "ACTION_GATED" /\ lookup # NoLookup) )
    => ~( args.push_gh_repo_url # "" /\ lookup.commits )

C20_Witness ==
    /\ args.push_gh_repo_url # ""
    /\ lookup # NoLookup
    /\ lookup.kind = "issue"
    /\ lookup.commits
    /\ decision = [out |-> "INELIGIBLE", check |-> 6]
    /\ st[index] = "RECORDED"
    /\ pc = "exit"

====
